---- MODULE Spec2Model ----
(***************************************************************************)
(* iowatch: the watch / supervise control loop of src/src/lib.rs           *)
(* (IoWatch::run, pump_events, run_utility, kill_utility, kill, spawn).    *)
(*                                                                         *)
(* The controller is one thread: every handler below is one atomic action. *)
(* The producers (debouncer thread, ctrl-c handler thread) and the managed *)
(* child processes are the environment.                                    *)
(***************************************************************************)
EXTENDS Integers, Sequences, FiniteSets, TLC

(* ------------------------------- bounds -------------------------------- *)
MaxFiles == 2      \* longest list of watch targets
MaxQueue == 1      \* most batches waiting in the watcher channel
MaxIters == 2      \* most pump_events iterations explored

(* ----------------------------- input domains --------------------------- *)
\* Option::None for utility_process; a recorded child is its pid >= 1.
None == 0

\* Watch targets handed to try_from (-f or stdin lines).  "missing" stands for
\* a path the watcher cannot register.
FileNames == {"a.txt", "missing"}

\* Strings the user can give to -k.  SignalNames are those that
\* str::parse::<Signal>() accepts; "BOGUS" is one it rejects.
SignalNames == {"SIGTERM"}
KillSigArgs == SignalNames \cup {"BOGUS"}

\* Paths reported by the watcher, as component sequences.
Paths == {<<"a.txt">>, <<"build", "output.txt">>}

\* Contents of the ignore files found in the working directory, as the set of
\* ignored names: an ignore file listing build/.  With it Paths holds ignored
\* and non-ignored paths, so all-ignored, mixed and non-ignored batches occur.
IgnoreFiles == {{"build"}}

SeqsUpTo(S, n) == UNION {[1..k -> S] : k \in 1..n}

\* A message of the watcher channel: Ok(events) or Err(errors).  The
\* debouncer keeps one pending event per path, so the events of a batch are
\* a non-empty set of distinct paths.
Batches == {[ok |-> TRUE, events |-> es] : es \in (SUBSET Paths) \ {{}}}
             \cup {[ok |-> FALSE, events |-> {}]}

\* What the operating system does when kill() signals the group and calls
\* waitid(Id::PGid(pgid), WaitPidFlag::all()).  all() is the union of every
\* flag, WNOHANG and WNOWAIT included, so waitid neither blocks until the
\* child has exited nor reaps it: on return the child has either already died
\* of the signal (and is left a zombie) or is still running.
OsOutcomes == {"exited", "still_alive", "killpg_err", "waitid_err"}

VARIABLES
    cli,             \* the parsed command line (struct Cli), immutable
    self,            \* struct IoWatch
    pc,              \* position of run(): new_debouncer, watch, ignore_matcher,
                     \* ctrlc, first_run, loop, done
    watched,         \* number of targets registered so far
    ignore_matcher,  \* the Gitignore: [built, names], names the ignored names
    handler,         \* TRUE once ctrlc::set_handler has installed the handler
    rx,              \* watcher channel: batches sent and not yet received
    ctrlc_rx,        \* bounded(1) ctrl-c channel: number of pending notifications
    procs,           \* OS view of every child spawned: pid -> alive/zombie/gone
    signals,         \* every signal sent with killpg, in order
    result,          \* what run() returned: running, ok, err
    iters,           \* pump_events calls completed
    reruns,          \* run_utility calls made
    last,            \* what the most recent controller step did
    timer,           \* the after(self.timeout) channel of the current wait:
                     \* idle (no wait in progress), armed, expired
    entr             \* the earlier program of src/src/main.rs (struct Entr and
                     \* the position of Entr::run), modelled further down

vars == <<cli, self, pc, watched, ignore_matcher, handler, rx, ctrlc_rx,
          procs, signals, result, iters, reruns, last, timer, entr>>

(* ------------------------------ try_from ------------------------------- *)
\* TryFrom<Cli> for IoWatch.  timeout: None becomes Duration::from_secs(u64::MAX),
\* written "infinite" here.
TryFrom(c) ==
    [ exit_after      |-> c.exit_after,
      postpone        |-> c.postpone,
      files           |-> c.files,
      timeout         |-> c.timeout,
      delay           |-> c.delay,
      clear_term      |-> c.clear_term,
      kill_sig        |-> c.kill_signal,
      utility_process |-> None,
      first_run       |-> TRUE ]

Clis ==
    [ exit_after  : BOOLEAN,
      postpone    : BOOLEAN,
      files       : SeqsUpTo(FileNames, MaxFiles),
      timeout     : {"infinite", "finite"},
      delay       : {0, 100},
      clear_term  : BOOLEAN,
      kill_signal : KillSigArgs ]

NoKill == [pre |-> "not_called", ok |-> TRUE, sent |-> FALSE]
NoBatch == [ok |-> FALSE, events |-> {}]
NoStep == [op |-> "none", batch |-> NoBatch, reran |-> FALSE, err |-> "none",
           steps |-> <<>>, kill |-> NoKill, clear |-> "none"]

\* The earlier program when it is not the one being run.
EntrOff == [pc |-> "off", clear_term |-> FALSE, postpone |-> FALSE, files |-> <<>>,
            rx |-> <<>>, iters |-> 0, runs |-> 0, spawned |-> 0, result |-> "running",
            last |-> [ev |-> "none", ran |-> FALSE, err |-> "none"]]

\* The state after construction, for the command lines of C.
InitWith(C) ==
    /\ cli \in C
    /\ self = TryFrom(cli)
    /\ pc = "new_debouncer"
    /\ watched = 0
    /\ ignore_matcher = [built |-> FALSE, names |-> {}]
    /\ handler = FALSE
    /\ rx = <<>>
    /\ ctrlc_rx = 0
    /\ procs = <<>>
    /\ signals = <<>>
    /\ result = "running"
    /\ iters = 0
    /\ reruns = 0
    /\ last = NoStep
    /\ timer = "idle"

Init == InitWith(Clis) /\ entr = EntrOff

(* ---------------------------- ignore matcher --------------------------- *)
\* Gitignore::matched_path_or_any_parents(path, is_dir).is_ignore(): the path
\* or one of its parent directories matches an ignore pattern.
is_ignore(m, path) == \E i \in 1..Len(path) : path[i] \in m.names

\* pump_events: events.iter().any(|e| ...is_ignore()).
ignore(events, m) == \E e \in events : is_ignore(m, e)

(* ------------------------------ processes ------------------------------ *)
\* kill(child, sig), unix.  ps and sigs are the OS process table and the
\* signal log before the call; os is what the OS does (OsOutcomes).
\* The child is the leader of its own group (process_group(0)), so its pgid
\* is its pid.
kill(child, sig, ps, sigs, os) ==
    IF sig \notin SignalNames
      THEN \* sig.parse::<Signal>()? fails
           [ok |-> FALSE, procs |-> ps, signals |-> sigs, sent |-> FALSE]
    ELSE IF ps[child] = "gone"
      THEN \* getpgid: Err(Errno::ESRCH) => return Ok(())
           [ok |-> TRUE, procs |-> ps, signals |-> sigs, sent |-> FALSE]
    ELSE IF os = "killpg_err"
      THEN \* signal::killpg(pgid, sig)? fails
           [ok |-> FALSE, procs |-> ps, signals |-> sigs, sent |-> FALSE]
    ELSE [ok      |-> os # "waitid_err",
          procs   |-> IF os = "exited" /\ ps[child] = "alive"
                        THEN [ps EXCEPT ![child] = "zombie"] ELSE ps,
          signals |-> Append(sigs, [pgid |-> child, sig |-> sig]),
          sent    |-> TRUE]

\* Faulty variant of kill_utility: the child is taken out of the Option
\* (utility_process.take()) instead of borrowed.
kill_utility_take(s, ps, sigs, os) ==
    IF s.utility_process # None
      THEN LET k == kill(s.utility_process, s.kill_sig, ps, sigs, os)
           IN  [ok |-> k.ok, procs |-> k.procs, signals |-> k.signals,
                self |-> [s EXCEPT !.utility_process = None],
                kill |-> [pre |-> ps[s.utility_process], ok |-> k.ok, sent |-> k.sent]]
      ELSE [ok |-> TRUE, procs |-> ps, signals |-> sigs, self |-> s,
            kill |-> [pre |-> "idle", ok |-> TRUE, sent |-> FALSE]]

\* IoWatch::kill_utility.  `Some(ref mut child)` borrows the child: the
\* struct, utility_process included, is returned as it was.
kill_utility(s, ps, sigs, os) ==
    IF s.utility_process # None
      THEN LET k == kill(s.utility_process, s.kill_sig, ps, sigs, os)
           IN  [ok |-> k.ok, procs |-> k.procs, signals |-> k.signals, self |-> s,
                kill |-> [pre |-> ps[s.utility_process], ok |-> k.ok, sent |-> k.sent]]
      ELSE [ok |-> TRUE, procs |-> ps, signals |-> sigs, self |-> s,
            kill |-> [pre |-> "idle", ok |-> TRUE, sent |-> FALSE]]

\* spawn(program, args): cmd.spawn() either fails or yields a new live child,
\* whose pid is the next index of the process table.
spawn(ps, spawnOk) ==
    IF spawnOk THEN [ok |-> TRUE,  child |-> Len(ps) + 1, procs |-> Append(ps, "alive")]
               ELSE [ok |-> FALSE, child |-> None,        procs |-> ps]

\* Faulty variant of applies_delay: the first-run test is missing.
applies_delay_always(s) == s.delay > 0

\* run_utility, line 287: the delay applies only on subsequent runs.
applies_delay(s) == ~s.first_run /\ s.delay > 0

\* Faulty variant of kill_failed: the result of kill_utility is dropped.
kill_failed_ignored(k) == FALSE

\* run_utility, line 278: `self.kill_utility()?`.
kill_failed(k) == ~k.ok

\* Faulty variant of clear_failed: the result of clear_term_screen is dropped.
clear_failed_ignored(s, clearOk) == FALSE

\* run_utility, lines 281-284: `self.clear_term_screen().context(..)?`.
\* clearOk is FALSE when neither `clear` nor `cmd /c cls` can be run.
clear_failed(s, clearOk) == s.clear_term /\ ~clearOk

\* IoWatch::run_utility.  Returns the new struct, the new OS state, whether
\* it returned Ok, which `?` failed, the steps it performed in order, and
\* how the kill and the clear it attempted went.
run_utility(s, ps, sigs, os, clearOk, spawnOk) ==
    LET k  == IF s.utility_process # None
                THEN kill_utility(s, ps, sigs, os)
                ELSE [ok |-> TRUE, procs |-> ps, signals |-> sigs, self |-> s,
                      kill |-> NoKill]
        t  == k.self
        c  == IF ~t.clear_term THEN "none" ELSE IF clearOk THEN "ok" ELSE "failed"
        s1 == IF s.utility_process # None THEN <<"kill">> ELSE <<>>
        s2 == IF t.clear_term THEN Append(s1, "clear") ELSE s1
        s3 == IF applies_delay(t) THEN Append(s2, "sleep") ELSE s2
        sp == spawn(k.procs, spawnOk)
    IN  IF kill_failed(k)
          THEN [ok |-> FALSE, err |-> "kill", self |-> t, procs |-> k.procs,
                signals |-> k.signals, steps |-> s1, kill |-> k.kill, clear |-> "none"]
        ELSE IF clear_failed(t, clearOk)
          THEN [ok |-> FALSE, err |-> "clear", self |-> t, procs |-> k.procs,
                signals |-> k.signals, steps |-> s2, kill |-> k.kill, clear |-> c]
        ELSE IF ~sp.ok
          THEN [ok |-> FALSE, err |-> "spawn", self |-> t, procs |-> k.procs,
                signals |-> k.signals, steps |-> Append(s3, "spawn"), kill |-> k.kill,
                clear |-> c]
        ELSE [ok |-> TRUE, err |-> "none",
              self |-> [t EXCEPT !.utility_process = sp.child, !.first_run = FALSE],
              procs |-> sp.procs, signals |-> k.signals,
              steps |-> s3 \o <<"spawn", "mark">>, kill |-> k.kill, clear |-> c]

(* ------------------------------- run() --------------------------------- *)
\* Faulty variant of watch: the result of watcher.watch is dropped.
watch_unchecked(f) == TRUE

\* watcher.watch(f, recursive_mode): Ok iff the OS can register the path.
watch(f) == f # "missing"

\* Faulty variant of run_immediately: the immediate run ignores -p.
run_immediately_always(s) == TRUE

\* run, line 155: `if !self.postpone`.
run_immediately(s) == ~s.postpone

\* Faulty variant of exits_after_first: the early return is missing.
exits_after_first_never(s) == FALSE

\* run, line 158: `if self.exit_after { return Ok(()) }`.
exits_after_first(s) == s.exit_after

\* Faulty variant of reruns_on: the test on `ignore` is inverted.
reruns_on_inverted(b, m) == b.ok /\ ignore(b.events, m)

\* pump_events, lines 184-190: the batch is Ok(events) and `!ignore`.
reruns_on(b, m) == b.ok /\ ~ignore(b.events, m)

\* Faulty variant of after_pump: the result of pump_events is discarded.
after_pump_swallow(ok, exit_after) == IF exit_after THEN "ok" ELSE "continue"

\* run, lines 165-168: `pump_events(..)?` followed by `if self.exit_after { break }`.
after_pump(ok, exit_after) ==
    IF ~ok THEN "err" ELSE IF exit_after THEN "ok" ELSE "continue"

\* Faulty variant of timer_can_fire: the u64::MAX sentinel is a deadline
\* that is reached.
timer_can_fire_always(s) == TRUE

\* The select! arm for the timer, line 198: crossbeam after(self.timeout) is
\* created anew by every pump_events call; with no -t the duration is
\* u64::MAX seconds and the arm never becomes ready.
timer_can_fire(s) == s.timeout = "finite"

\* Faulty variant of rearm: one after() channel is made before the loop and
\* reused by every wait.
rearm_kept(t) == t

\* pump_events, line 198: every call makes a new after(self.timeout), so
\* each wait starts with the full duration ahead of it.
rearm(t) == "armed"

Finish(res) == pc' = "done" /\ result' = res

Running == result = "running"

\* What a handler that did not call run_utility leaves behind.
NoRun(s, ps, sigs) ==
    [ok |-> TRUE, err |-> "none", self |-> s, procs |-> ps, signals |-> sigs,
     steps |-> <<>>, kill |-> NoKill, clear |-> "none"]

\* new_debouncer(Duration::from_millis(25), None, tx)?
NewDebouncer(ok) ==
    /\ pc = "new_debouncer"
    /\ IF ok THEN pc' = "watch" /\ result' = result ELSE Finish("err")
    /\ last' = [NoStep EXCEPT !.op = "new_debouncer", !.err = IF ok THEN "none" ELSE "debouncer"]
    /\ UNCHANGED <<entr, timer, cli, self, watched, ignore_matcher, handler, rx, ctrlc_rx,
                   procs, signals, iters, reruns>>

\* One turn of `for f in &self.files { watcher.watch(..)? }`.
Watch ==
    /\ pc = "watch"
    /\ LET f == self.files[watched + 1] IN
         IF watch(f)
           THEN /\ watched' = watched + 1
                /\ pc' = IF watched + 1 = Len(self.files) THEN "ignore_matcher" ELSE "watch"
                /\ result' = result
                /\ last' = [NoStep EXCEPT !.op = "watch"]
           ELSE /\ watched' = watched
                /\ Finish("err")
                /\ last' = [NoStep EXCEPT !.op = "watch", !.err = "watch"]
    /\ UNCHANGED <<entr, timer, cli, self, ignore_matcher, handler, rx, ctrlc_rx,
                   procs, signals, iters, reruns>>

\* self.get_ignore_matcher()?  names is what the ignore files list.
GetIgnoreMatcher(names, ok) ==
    /\ pc = "ignore_matcher"
    /\ IF ok
         THEN /\ ignore_matcher' = [built |-> TRUE, names |-> names]
              /\ pc' = "ctrlc" /\ result' = result
         ELSE /\ ignore_matcher' = ignore_matcher
              /\ Finish("err")
    /\ last' = [NoStep EXCEPT !.op = "ignore_matcher", !.err = IF ok THEN "none" ELSE "matcher"]
    /\ UNCHANGED <<entr, timer, cli, self, watched, handler, rx, ctrlc_rx,
                   procs, signals, iters, reruns>>

\* self.ctrlc_events()?
CtrlcEvents(ok) ==
    /\ pc = "ctrlc"
    /\ IF ok THEN handler' = TRUE /\ pc' = "first_run" /\ result' = result
             ELSE handler' = handler /\ Finish("err")
    /\ last' = [NoStep EXCEPT !.op = "ctrlc_events", !.err = IF ok THEN "none" ELSE "ctrlc"]
    /\ UNCHANGED <<entr, timer, cli, self, watched, ignore_matcher, rx, ctrlc_rx,
                   procs, signals, iters, reruns>>

\* Lines 155-162: the immediate run.
FirstRun(os, clearOk, spawnOk) ==
    /\ pc = "first_run"
    /\ LET ran == run_immediately(self)
           r   == IF ran THEN run_utility(self, procs, signals, os, clearOk, spawnOk)
                         ELSE NoRun(self, procs, signals)
       IN /\ self' = r.self
          /\ procs' = r.procs
          /\ signals' = r.signals
          /\ reruns' = IF ran THEN reruns + 1 ELSE reruns
          /\ last' = [op |-> "first", batch |-> NoBatch, reran |-> ran, err |-> r.err,
                      steps |-> r.steps, kill |-> r.kill, clear |-> r.clear]
          /\ IF ~r.ok THEN Finish("err")
             ELSE IF ran /\ exits_after_first(r.self) THEN Finish("ok")
             ELSE pc' = "loop" /\ result' = result
          /\ timer' = IF pc' = "loop" THEN "armed" ELSE "idle"
    /\ UNCHANGED <<entr, cli, watched, ignore_matcher, handler, rx, ctrlc_rx, iters>>

\* The common end of one loop turn: record the step and apply lines 165-168.
EndPump(op, b, ran, r, s) ==
    /\ self' = s
    /\ procs' = r.procs
    /\ signals' = r.signals
    /\ reruns' = IF ran THEN reruns + 1 ELSE reruns
    /\ iters' = iters + 1
    /\ last' = [op |-> op, batch |-> b, reran |-> ran, err |-> r.err,
                steps |-> r.steps, kill |-> r.kill, clear |-> r.clear]
    /\ LET a == after_pump(r.ok, s.exit_after) IN
         IF a = "continue" THEN pc' = "loop" /\ result' = result /\ timer' = rearm(timer)
                           ELSE Finish(a) /\ timer' = "idle"

\* pump_events, arm recv(rx), with a message ready.  (The Err(e) case of
\* line 194 needs every sender dropped; the debouncer owns the sender and
\* lives until run returns, so that case is not reachable from the loop.)
PumpFs(os, clearOk, spawnOk) ==
    /\ pc = "loop" /\ iters < MaxIters
    /\ rx # <<>>
    /\ LET b   == Head(rx)
           ran == reruns_on(b, ignore_matcher)
           r   == IF ran THEN run_utility(self, procs, signals, os, clearOk, spawnOk)
                         ELSE NoRun(self, procs, signals)
       IN EndPump("fs", b, ran, r, r.self)
    /\ rx' = Tail(rx)
    /\ UNCHANGED <<entr, cli, watched, ignore_matcher, handler, ctrlc_rx>>

\* pump_events, arm recv(after(self.timeout)).
PumpTimeout(os, clearOk, spawnOk) ==
    /\ pc = "loop" /\ iters < MaxIters
    /\ timer = "expired"
    /\ LET r == run_utility(self, procs, signals, os, clearOk, spawnOk)
       IN EndPump("timeout", NoBatch, TRUE, r, r.self)
    /\ UNCHANGED <<entr, cli, watched, ignore_matcher, handler, rx, ctrlc_rx>>

\* Faulty variant of ctrlc_ready: the ctrl-c arm is never selected.
ctrlc_ready_never(n) == FALSE

\* select!, line 203: recv(ctrlc_rx) is ready when a notification is pending.
\* select! takes any one of the ready arms.
ctrlc_ready(n) == n > 0

\* pump_events, arm recv(ctrlc_rx): kill_utility()?; exit_after = true.
PumpCtrlc(os) ==
    /\ pc = "loop" /\ iters < MaxIters
    /\ ctrlc_ready(ctrlc_rx)
    /\ LET k == kill_utility(self, procs, signals, os)
           r == [ok |-> k.ok, err |-> IF k.ok THEN "none" ELSE "kill", self |-> k.self,
                 procs |-> k.procs, signals |-> k.signals,
                 steps |-> <<"kill">>, kill |-> k.kill, clear |-> "none"]
       IN EndPump("ctrlc", NoBatch, FALSE, r,
                  IF k.ok THEN [k.self EXCEPT !.exit_after = TRUE] ELSE k.self)
    /\ ctrlc_rx' = ctrlc_rx - 1
    /\ UNCHANGED <<entr, cli, watched, ignore_matcher, handler, rx>>

(* ----------------------------- environment ----------------------------- *)
\* The debouncer thread sends one batch.
FsNotify(b) ==
    /\ Running /\ watched > 0
    /\ Len(rx) < MaxQueue
    /\ rx' = Append(rx, b)
    /\ UNCHANGED <<entr, timer, cli, self, pc, watched, ignore_matcher, handler, ctrlc_rx,
                   procs, signals, result, iters, reruns, last>>

\* The ctrl-c handler thread runs tx.send(()) on the bounded(1) channel.
CtrlC ==
    /\ Running /\ handler
    /\ ctrlc_rx = 0
    /\ ctrlc_rx' = 1
    /\ UNCHANGED <<entr, timer, cli, self, pc, watched, ignore_matcher, handler, rx,
                   procs, signals, result, iters, reruns, last>>

\* The duration of the current wait's after(self.timeout) has passed.
TimerExpires ==
    /\ pc = "loop" /\ iters < MaxIters
    /\ timer_can_fire(self)
    /\ timer = "armed"
    /\ timer' = "expired"
    /\ UNCHANGED <<entr, cli, self, pc, watched, ignore_matcher, handler, rx, ctrlc_rx,
                   procs, signals, result, iters, reruns, last>>

\* A child exits on its own.  It stays a zombie until waited for, or
\* disappears at once where the kernel reaps it (SIGCHLD ignored).
ChildExits(p, reaped) ==
    /\ Running
    /\ p \in 1..Len(procs) /\ procs[p] = "alive"
    /\ procs' = [procs EXCEPT ![p] = IF reaped THEN "gone" ELSE "zombie"]
    /\ UNCHANGED <<entr, timer, cli, self, pc, watched, ignore_matcher, handler, rx, ctrlc_rx,
                   signals, result, iters, reruns, last>>

Next ==
    \/ \E ok \in BOOLEAN : NewDebouncer(ok)
    \/ Watch
    \/ \E names \in IgnoreFiles, ok \in BOOLEAN : GetIgnoreMatcher(names, ok)
    \/ \E ok \in BOOLEAN : CtrlcEvents(ok)
    \/ \E os \in OsOutcomes, clearOk \in BOOLEAN, spawnOk \in BOOLEAN :
          FirstRun(os, clearOk, spawnOk)
    \/ \E os \in OsOutcomes, clearOk \in BOOLEAN, spawnOk \in BOOLEAN :
          PumpFs(os, clearOk, spawnOk)
    \/ \E os \in OsOutcomes, clearOk \in BOOLEAN, spawnOk \in BOOLEAN :
          PumpTimeout(os, clearOk, spawnOk)
    \/ \E os \in OsOutcomes : PumpCtrlc(os)
    \/ \E b \in Batches : FsNotify(b)
    \/ CtrlC
    \/ TimerExpires
    \/ \E p \in 1..(MaxIters + 1), reaped \in BOOLEAN : ChildExits(p, reaped)


Spec == Init /\ [][Next]_vars

\* The loop under fair selection: select! picks at random among the ready
\* arms, so a ctrl-c arm that stays ready is eventually the one picked.  The
\* command lines are those with one registerable target, no clear and no delay.
LiveClis == {c \in Clis : c.files = <<"a.txt">> /\ c.delay = 0 /\ ~c.clear_term}

LiveInit == InitWith(LiveClis) /\ entr = EntrOff

LiveSpec == LiveInit /\ [][Next]_vars /\ WF_vars(\E os \in OsOutcomes : PumpCtrlc(os))

(* ------------------- the earlier program, src/src/main.rs --------------- *)
\* notify::DebouncedEvent, by variant.
DebouncedEvents == {"NoticeWrite", "NoticeRemove", "Create", "Write", "Chmod",
                    "Remove", "Rename", "Rescan", "Error"}

\* Faulty variant of discards: Chmod is not among the discarded variants.
discards_notices_only(ev) == ev \in {"NoticeWrite", "NoticeRemove"}

\* Entr::run, lines 93-95: the arms that `continue`.
discards(ev) == ev \in {"NoticeWrite", "NoticeRemove", "Chmod"}

\* Entr::run_utility: clear (if asked), then spawn; nothing is killed.
entr_run_utility(e, clearOk, spawnOk) ==
    IF e.clear_term /\ ~clearOk THEN [ok |-> FALSE, err |-> "clear", spawned |-> e.spawned]
    ELSE IF ~spawnOk            THEN [ok |-> FALSE, err |-> "spawn", spawned |-> e.spawned]
    ELSE [ok |-> TRUE, err |-> "none", spawned |-> e.spawned + 1]

EntrStarts ==
    {[EntrOff EXCEPT !.pc = "start", !.clear_term = c, !.postpone = p, !.files = f] :
        c \in BOOLEAN, p \in BOOLEAN, f \in SeqsUpTo(FileNames, MaxFiles) \cup {<<>>}}

\* Only main.rs runs: the IoWatch of lib.rs stays as constructed.
EntrInit == InitWith({CHOOSE c \in Clis : TRUE}) /\ entr \in EntrStarts

EntrUnchanged == UNCHANGED <<cli, self, pc, watched, ignore_matcher, handler, rx,
                             ctrlc_rx, procs, signals, result, iters, reruns, last, timer>>

\* Entr::run, lines 51-88: the files read from stdin, the watches, and the
\* first iteration run by hand.
EntrStart(clearOk, spawnOk) ==
    /\ entr.pc = "start"
    /\ LET r == entr_run_utility(entr, clearOk, spawnOk)
           fail(e) == [entr EXCEPT !.pc = "done", !.result = "err", !.last.err = e]
       IN entr' =
            IF entr.files = <<>> THEN fail("no_files")
            ELSE IF \E i \in 1..Len(entr.files) : ~watch(entr.files[i]) THEN fail("watch")
            ELSE IF entr.postpone THEN [entr EXCEPT !.pc = "loop"]
            ELSE IF ~r.ok THEN [fail(r.err) EXCEPT !.runs = 1, !.last.ran = TRUE]
            ELSE [entr EXCEPT !.pc = "loop", !.runs = 1, !.spawned = r.spawned,
                              !.last.ran = TRUE]
    /\ EntrUnchanged

\* Entr::run, lines 90-99: one rx.recv() with an event ready.  (recv fails
\* only with every sender dropped; the watcher holding the sender is owned
\* by run.)
EntrRecv(clearOk, spawnOk) ==
    /\ entr.pc = "loop" /\ entr.iters < MaxIters
    /\ entr.rx # <<>>
    /\ LET ev == Head(entr.rx)
           r  == entr_run_utility(entr, clearOk, spawnOk)
           e  == [entr EXCEPT !.rx = Tail(entr.rx), !.iters = entr.iters + 1]
       IN entr' =
            IF discards(ev)
              THEN [e EXCEPT !.last = [ev |-> ev, ran |-> FALSE, err |-> "none"]]
            ELSE IF ~r.ok
              THEN [e EXCEPT !.runs = entr.runs + 1, !.pc = "done", !.result = "err",
                             !.last = [ev |-> ev, ran |-> TRUE, err |-> r.err]]
            ELSE [e EXCEPT !.runs = entr.runs + 1, !.spawned = r.spawned,
                           !.last = [ev |-> ev, ran |-> TRUE, err |-> "none"]]
    /\ EntrUnchanged

\* The watcher thread sends one event.
EntrNotify(ev) ==
    /\ entr.pc \in {"start", "loop"}
    /\ Len(entr.rx) < MaxQueue
    /\ entr' = [entr EXCEPT !.rx = Append(entr.rx, ev)]
    /\ EntrUnchanged

EntrNext ==
    \/ \E clearOk \in BOOLEAN, spawnOk \in BOOLEAN : EntrStart(clearOk, spawnOk)
    \/ \E clearOk \in BOOLEAN, spawnOk \in BOOLEAN : EntrRecv(clearOk, spawnOk)
    \/ \E ev \in DebouncedEvents : EntrNotify(ev)

EntrSpec == EntrInit /\ [][EntrNext]_vars

(* ------------------------------- claims -------------------------------- *)
Alive == {p \in 1..Len(procs) : procs[p] = "alive"}

\* The batch holds at least one record the matcher does not ignore.
SomeNotIgnored(b) == b.ok /\ \E e \in b.events : ~is_ignore(ignore_matcher, e)

\* The batch holds records and the matcher ignores every one of them.
AllIgnored(b) == b.ok /\ b.events # {} /\ \A e \in b.events : is_ignore(ignore_matcher, e)

\* C1: in every reachable state at most one utility child is alive (the
\* previous child has exited before run_utility spawns the next).
C1_AtMostOneAlive == Cardinality(Alive) <= 1

\* C2: a delivered batch with at least one non-ignored record makes the loop
\* perform a Rerun, whatever else the batch holds.
C2_NonIgnoredRecordReruns ==
    (last.op = "fs" /\ SomeNotIgnored(last.batch)) => last.reran

\* C3: receiving a batch whose records are all ignored calls run_utility
\* not at all: it spawns no process, signals no process and leaves the
\* recorded child as it is.
C3_AllIgnoredNoRerun ==
    [][ (pc = "loop" /\ rx # <<>> /\ rx' = Tail(rx) /\ AllIgnored(Head(rx)))
          => /\ reruns' = reruns
             /\ procs' = procs
             /\ signals' = signals
             /\ self' = self ]_vars

C3_Witness ==
    /\ last.op = "fs" /\ AllIgnored(last.batch)
    /\ self.utility_process # None /\ procs[self.utility_process] = "alive"
    /\ pc = "loop"

\* C4 as stated: after a spawn failure in a Rerun triggered inside the loop
\* the loop is still running and waiting.
C4_SpawnFailureRecoverable ==
    (last.op \in {"fs", "timeout"} /\ last.err = "spawn")
        => (pc = "loop" /\ result = "running")

\* C4 amended: a spawn failure in a Rerun triggered inside the loop ends the
\* loop: the failed spawn is the last step taken and run returns the error
\* instead of going back to waiting.
C4_SpawnFailureEndsLoop ==
    (last.op \in {"fs", "timeout"} /\ last.err = "spawn")
        => /\ pc = "done" /\ result = "err"
           /\ last.steps # <<>> /\ last.steps[Len(last.steps)] = "spawn"

C4_Witness ==
    /\ last.op = "fs" /\ last.err = "spawn"
    /\ self.utility_process # None

\* C5: when the interrupt arm runs with a live child and the kill returns
\* Ok, the configured signal was sent to the child's group, the child has
\* exited by the time the kill returns, and run returns Ok.
C5_InterruptKillsAndExitsOk ==
    (last.op = "ctrlc" /\ last.kill.pre = "alive" /\ last.kill.ok)
        => /\ last.kill.sent
           /\ signals # <<>>
           /\ signals[Len(signals)] = [pgid |-> self.utility_process, sig |-> self.kill_sig]
           /\ procs[self.utility_process] # "alive"
           /\ pc = "done" /\ result = "ok"

\* C6: kill_utility with no recorded child, or with a recorded child whose
\* process no longer exists, returns Ok and sends no signal, for every
\* configured kill-signal name.
C6_TerminateIdempotent ==
    (last.kill.pre \in {"idle", "gone"}) => (last.kill.ok /\ ~last.kill.sent)

\* C7: with postpone the first Rerun happens in the loop, on a batch with a
\* non-ignored record or on the timer; without postpone exactly one Rerun
\* (one spawn) has happened when the loop first waits.
C7_PostponeGovernsFirstRun ==
    /\ [](  (pc = "loop" /\ iters = 0)
              => IF cli.postpone THEN reruns = 0 /\ procs = <<>>
                                 ELSE reruns = 1 /\ Len(procs) = 1 )
    /\ [][ (cli.postpone /\ reruns = 0 /\ reruns' > 0)
              => /\ pc = "loop"
                 /\ \/ last'.op = "timeout"
                    \/ last'.op = "fs" /\ SomeNotIgnored(last'.batch) ]_vars

C7_Witness ==
    /\ cli.postpone /\ pc = "loop" /\ iters = 2
    /\ reruns = 1 /\ last.op = "fs" /\ last.reran /\ Len(procs) = 1

C9_InvalidKillSignalFatalAtStartup ==
    (cli.kill_signal \notin SignalNames)
        => (pc # "loop" /\ procs = <<>> /\ last.err # "kill")

\* C10: registration gets past the watch loop iff every target can be
\* registered; a target that cannot be registered makes run return an error
\* with the ignore matcher not built, the ctrl-c handler not installed and
\* nothing spawned.
AllRegisterable == \A i \in 1..Len(cli.files) : cli.files[i] # "missing"

C10_StartupIffAllRegistered ==
    /\ (pc \notin {"new_debouncer", "watch", "done"} \/ ignore_matcher.built
          \/ handler \/ procs # <<>> \/ reruns > 0 \/ watched = Len(cli.files))
         => AllRegisterable
    /\ (AllRegisterable /\ pc = "done") => last.err # "watch"
    /\ (~AllRegisterable /\ pc \notin {"new_debouncer", "watch"})
         => /\ pc = "done" /\ result = "err"
            /\ last.op \in {"new_debouncer", "watch"}
            /\ ~ignore_matcher.built /\ ~handler /\ procs = <<>> /\ reruns = 0

C10_Witness ==
    /\ cli.files = <<"a.txt", "missing">>
    /\ pc = "done" /\ result = "err" /\ last.err = "watch" /\ watched = 1

\* s is a prefix of t.
IsPrefix(s, t) == Len(s) <= Len(t) /\ \A i \in 1..Len(s) : s[i] = t[i]

Took(step) == \E i \in 1..Len(last.steps) : last.steps[i] = step

\* C11 as stated: when clearing the screen fails the Rerun still spawns the
\* utility and run does not end with an error.
C11_ClearFailureNotFatal ==
    (last.clear = "failed") => (Took("spawn") /\ result # "err")

\* C11 amended: when clear-terminal is set and clearing fails, run_utility
\* returns the error right after the clear step: nothing is slept or
\* spawned and run returns the error.
C11_ClearFailureEndsRun ==
    (last.clear = "failed")
        => /\ last.err = "clear"
           /\ last.steps # <<>> /\ last.steps[Len(last.steps)] = "clear"
           /\ ~Took("sleep") /\ ~Took("spawn")
           /\ pc = "done" /\ result = "err"

C11_Witness ==
    /\ last.clear = "failed" /\ last.op = "fs"
    /\ last.kill.sent /\ cli.delay > 0

\* C12: without -t the timer arm is never taken: every Rerun comes from the
\* immediate run or from a filesystem batch.
C12_NoTimeoutNoTimerRerun ==
    (cli.timeout = "infinite")
        => /\ last.op # "timeout"
           /\ last.reran => last.op \in {"first", "fs"}

C12_Witness ==
    /\ cli.timeout = "infinite" /\ ~cli.postpone
    /\ iters = 2 /\ reruns = 2 /\ last.op = "fs" /\ last.reran

\* C13: a Rerun takes its steps in the order kill (a child is recorded, that
\* is from the second Rerun on), clear (if configured), sleep (from the
\* second Rerun on, if the delay is positive), spawn, mark; a failing step
\* cuts the sequence short.
ExpectedSteps ==
    (IF reruns > 1 THEN <<"kill">> ELSE <<>>)
      \o (IF cli.clear_term THEN <<"clear">> ELSE <<>>)
      \o (IF reruns > 1 /\ cli.delay > 0 THEN <<"sleep">> ELSE <<>>)
      \o <<"spawn", "mark">>

C13_RerunStepOrder ==
    last.reran
        => /\ IsPrefix(last.steps, ExpectedSteps)
           /\ (last.err = "none") => last.steps = ExpectedSteps
           /\ (reruns = 1) => ~Took("sleep")
           /\ (reruns > 1) = (last.kill.pre # "not_called")

C13_Witness ==
    /\ last.op = "fs"
    /\ last.steps = <<"kill", "clear", "sleep", "spawn", "mark">>

\* The same for the first Rerun of a postponed start: triggered by an event,
\* with a positive delay configured, and no sleep.
C13_WitnessPostponed ==
    /\ cli.postpone /\ cli.delay > 0 /\ reruns = 1
    /\ last.op = "fs" /\ last.steps = <<"spawn", "mark">>

\* C15: a batch of delivery errors triggers no Rerun and the loop goes on
\* waiting.
C15_ErrorBatchNotFatal ==
    (last.op = "fs" /\ ~last.batch.ok)
        => (~last.reran /\ pc = "loop" /\ result = "running")

\* C16 as stated: after a terminate that returned Ok, and until a spawn
\* succeeds, no child is recorded.
C16_IdleAfterTerminate ==
    (last.kill.pre # "not_called" /\ last.kill.ok
       /\ (last.op = "ctrlc" \/ last.err # "none"))
        => self.utility_process = None

\* C16 amended: a terminate leaves the recorded child recorded;
\* utility_process changes only when a spawn succeeds, to the new child.
C16_TerminateKeepsRecordedChild ==
    /\ []( (last.kill.pre \notin {"not_called", "idle"})
             => self.utility_process # None )
    /\ [][ (self'.utility_process # self.utility_process)
             => /\ last'.reran /\ last'.err = "none"
                /\ Len(procs') = Len(procs) + 1
                /\ self'.utility_process = Len(procs') ]_vars

C16_Witness ==
    /\ last.op = "ctrlc" /\ last.kill.ok /\ last.kill.sent
    /\ self.utility_process = 1 /\ pc = "done" /\ result = "ok"

\* C19: with exit-after-first-run and postpone, run returns Ok only after a
\* Rerun has been performed or an interrupt has been handled.
C19_ExitAfterNeedsRerun ==
    (cli.exit_after /\ cli.postpone /\ pc = "done" /\ result = "ok")
        => (reruns > 0 \/ last.op = "ctrlc")

\* C20: when the kill of a Rerun fails, the Rerun stops there: nothing is
\* cleared, slept or spawned, the struct is unchanged and run returns the
\* error.
C20_KillFailureAbortsRerun ==
    [][ (reruns' = reruns + 1 /\ ~last'.kill.ok)
          => /\ last'.err = "kill" /\ last'.steps = <<"kill">>
             /\ Len(procs') = Len(procs)
             /\ self' = self
             /\ pc' = "done" /\ result' = "err" ]_vars

C20_Witness ==
    /\ last.reran /\ last.err = "kill" /\ last.op = "timeout"
    /\ cli.kill_signal = "SIGTERM" /\ cli.clear_term /\ cli.delay > 0
    /\ pc = "done"

\* C14: with -t every wait that follows a loop turn starts with the timer
\* rearmed, whatever the turn did; the timer arm is taken only with the
\* timer expired and then makes exactly one Rerun.
C14_TimerRestartsEachWait ==
    /\ [][ (iters' = iters + 1 /\ pc' = "loop") => timer' = "armed" ]_vars
    /\ [][ (iters' = iters + 1 /\ last'.op = "timeout")
             => /\ cli.timeout = "finite" /\ timer = "expired"
                /\ reruns' = reruns + 1 ]_vars
    /\ [](timer = "expired" => (cli.timeout = "finite" /\ pc = "loop"))

C14_Witness ==
    /\ cli.postpone /\ iters = 2 /\ reruns = 1
    /\ last.op = "timeout" /\ last.reran
    /\ pc = "loop" /\ timer = "armed"

\* C17 as stated: a wait that begins with an interrupt pending takes the
\* ctrl-c arm.
C17_InterruptHandledByThatIteration ==
    [][ (pc = "loop" /\ ctrlc_rx = 1 /\ iters' = iters + 1) => last'.op = "ctrlc" ]_vars

\* C17 amended: a wait that begins with an interrupt pending takes any ready
\* arm; if it is not the ctrl-c arm the interrupt stays pending, if it is,
\* run returns; and under fair selection a pending interrupt leads to run
\* returning (within the turns explored).
C17_InterruptEventuallyHandled ==
    /\ [][ (pc = "loop" /\ ctrlc_rx = 1 /\ iters' = iters + 1)
             => IF last'.op = "ctrlc" THEN pc' = "done" /\ ctrlc_rx' = 0
                                      ELSE ctrlc_rx' = 1 ]_vars
    /\ (pc = "loop" /\ ctrlc_rx = 1) ~> (pc = "done" \/ iters = MaxIters)

C17_Witness ==
    /\ iters = 2 /\ last.op = "ctrlc" /\ pc = "done" /\ reruns = 2
    /\ rx # <<>>

\* C18: in the loop of main.rs a NoticeWrite, NoticeRemove or Chmod event is
\* dropped without running the utility, and the loop goes on; any other
\* event received runs the utility exactly once.
C18_NoticesDiscarded ==
    [][ (entr.pc = "loop" /\ entr'.iters = entr.iters + 1)
          => IF Head(entr.rx) \in {"NoticeWrite", "NoticeRemove", "Chmod"}
               THEN /\ entr'.runs = entr.runs /\ entr'.spawned = entr.spawned
                    /\ entr'.pc = "loop"
               ELSE entr'.runs = entr.runs + 1 ]_vars

C18_Witness ==
    /\ entr.pc = "loop" /\ entr.last.ev = "Chmod" /\ ~entr.last.ran
    /\ entr.runs = 1 /\ entr.iters = 2
====
